---------------------------- MODULE Spec2Model ----------------------------
(***************************************************************************)
(* The notification service of the medical-appointment app                 *)
(* (notificationService): one AsyncStorage slot that holds the JSON text   *)
(* of the whole notification list, and asynchronous operations that each   *)
(* read the slot, transform the list in memory and write it back.          *)
(*                                                                         *)
(* An invocation is a process.  It suspends at `await getItem' and at      *)
(* `await setItem'; the storage performs the read and the write at some    *)
(* moment of its own, so the invocations of two callers interleave at      *)
(* these points.  The wall clock (Date.now) never goes back.               *)
(***************************************************************************)
EXTENDS Integers, Sequences, FiniteSets, TLC

(* ------------------------------ bounds --------------------------------- *)

\* The clock reads StartTime..StartTime+MaxTicks, in ms.  59999 ms is
\* 00:00:59.999, so that a tick crosses a second and a minute.
StartTime == 59999
MaxTicks == 1
\* Invocations in one run.
MaxCalls == 3

\* The invocations that can be under way at once.
Procs == {1, 2}
Users == {"p1", "d1"}
Patients == {"p1"}
Doctors == {"d1"}

(* ----------------------------- JS values ------------------------------- *)

\* The value `undefined' (sentinel: no other string of the model equals it).
Undefined == "<undefined>"

\* `${v}' in a template literal.
Render(v) == IF v = Undefined THEN "undefined" ELSE v

\* o.k for an object o: undefined when o has no property k.
Get(o, k) == IF k \in DOMAIN o THEN o[k] ELSE Undefined

\* { ...o, k: v }
With(o, k, v) == [x \in (DOMAIN o) \cup {k} |-> IF x = k THEN v ELSE o[x]]

(* ------------------------- Date and Number --------------------------- *)

RECURSIVE Digits(_)
Digits(n) == IF n < 10 THEN <<n>> ELSE Append(Digits(n \div 10), n % 10)

\* Date.now().toString(): the decimal digits of the millisecond count.
NumberToString(n) == Digits(n)

\* new Date(ms).toISOString(): the fields of "YYYY-MM-DDTHH:mm:ss.sssZ"
\* (the calendar date is kept as the day number since the epoch).
toISOString(ms) ==
    [ day    |-> ms \div 86400000,
      hour   |-> (ms \div 3600000) % 24,
      minute |-> (ms \div 60000) % 60,
      second |-> (ms \div 1000) % 60,
      milli  |-> ms % 1000 ]

\* new Date(iso).getTime()
getTime(iso) ==
    (((iso.day * 24 + iso.hour) * 60 + iso.minute) * 60 + iso.second) * 1000
      + iso.milli

(* ------------------------------- JSON ---------------------------------- *)

\* The properties that hold a string or undefined (the others hold a
\* boolean, a digit string, a date or a template's pieces, never undefined).
StringKeys == {"userId", "type", "title", "appointmentId"}

IsUndefined(o, k) == k \in StringKeys /\ o[k] = Undefined

\* JSON.stringify of one object: its members, without the undefined ones.
StringifyObject(o) ==
    {<<k, o[k]>> : k \in {x \in DOMAIN o : ~ IsUndefined(o, x)}}

\* JSON.parse of one object text.
ParseObject(t) ==
    [k \in {m[1] : m \in t} |-> (CHOOSE m \in t : m[1] = k)[2]]

\* JSON.stringify(allNotifications)
JSONstringify(all) == [i \in 1..Len(all) |-> StringifyObject(all[i])]

\* JSON.parse(stored)
JSONparse(text) == [i \in 1..Len(text) |-> ParseObject(text[i])]

(* --------------------------- the storage slot -------------------------- *)

\* What AsyncStorage holds under STORAGE_KEY: nothing (getItem gives null),
\* the JSON text of a notification array, or a text JSON.parse rejects.
NeverWritten == [kind |-> "null", text |-> <<>>]
Unparseable == [kind |-> "corrupt", text |-> <<>>]
JSONText(t) == [kind |-> "json", text |-> t]

\* The outcome of a getItem that rejected.
GetItemRejected == [kind |-> "rejected", text |-> <<>>]
\* Before getItem has answered.
NotRead == [kind |-> "none", text |-> <<>>]

\* A load without the `stored ?' test: the null of a never-written slot
\* parses to null, and using it as the array throws.
LoadThrowsOnNull(stored) == stored.kind \in {"rejected", "corrupt", "null"}

\* A JSON.parse that gives up on a bad text without throwing.
LoadThrowsOnRejection(stored) == stored.kind = "rejected"

\* `stored ? JSON.parse(stored) : []' throws (inside the try) when getItem
\* rejected or the text does not parse.
LoadThrows(stored) == stored.kind \in {"rejected", "corrupt"}

\* const allNotifications = stored ? JSON.parse(stored) : []
allNotifications(stored) ==
    IF stored.kind = "json" THEN JSONparse(stored.text) ELSE <<>>

(* ------------------------ the list transformations ------------------- *)

\* Array.prototype.filter is SelectSeq: the elements that pass, in order.

\* The comparator of getNotifications: negative when a goes before b.
compareCreatedAt(a, b) == getTime(b.createdAt) - getTime(a.createdAt)

\* One insertion of the stable sort: x goes before the first element that
\* the comparator puts after it.
RECURSIVE insertSorted(_, _)
insertSorted(sorted, x) ==
    IF sorted = <<>> THEN <<x>>
    ELSE IF compareCreatedAt(x, Head(sorted)) < 0 THEN <<x>> \o sorted
         ELSE <<Head(sorted)>> \o insertSorted(Tail(sorted), x)

\* Array.prototype.sort with compareCreatedAt (stable).
RECURSIVE sortByCreatedAt(_)
sortByCreatedAt(list) ==
    IF list = <<>> THEN <<>>
    ELSE insertSorted(sortByCreatedAt(SubSeq(list, 1, Len(list) - 1)),
                      list[Len(list)])

\* A getNotifications that forgets to sort.
listForUnsorted(all, userId) ==
    LET mine(n) == Get(n, "userId") = userId
    IN  SelectSeq(all, mine)

\* getNotifications: the value returned when the load does not throw.
listFor(all, userId) ==
    LET mine(n) == Get(n, "userId") = userId
    IN  sortByCreatedAt(SelectSeq(all, mine))

\* getNotifications(userId), given what getItem answered.
getNotifications(stored, userId) ==
    IF LoadThrows(stored) THEN <<>>
    ELSE listFor(allNotifications(stored), userId)

\* A getUnreadCount that counts the records that are read.
getUnreadCountOfRead(stored, userId) ==
    LET isRead(n) == Get(n, "read")
    IN  Len(SelectSeq(getNotifications(stored, userId), isRead))

\* A getUnreadCount whose catch returns -1.
getUnreadCountMinusOne(stored, userId) ==
    LET unread(n) == ~ Get(n, "read")
    IN  IF LoadThrows(stored) THEN 0 - 1
        ELSE Len(SelectSeq(getNotifications(stored, userId), unread))

\* getUnreadCount(userId), given what getItem answered.
getUnreadCount(stored, userId) ==
    LET unread(n) == ~ Get(n, "read")
    IN  Len(SelectSeq(getNotifications(stored, userId), unread))

\* A createNotification whose record is born read.
newNotificationRead(notification, nowId, nowCreated) ==
    With(With(With(notification, "id", NumberToString(nowId)),
              "createdAt", toISOString(nowCreated)),
         "read", TRUE)

\* createNotification: the new record, from the two clock readings.
newNotification(notification, nowId, nowCreated) ==
    With(With(With(notification, "id", NumberToString(nowId)),
              "createdAt", toISOString(nowCreated)),
         "read", FALSE)

\* A markAsRead that forgets to compare the id.
markAsReadMapEvery(all, notificationId) ==
    [i \in 1..Len(all) |-> With(all[i], "read", TRUE)]

\* A markAsRead that hands the list over back to front.
markAsReadMapReversed(all, notificationId) ==
    [i \in 1..Len(all) |->
        IF Get(all[Len(all) + 1 - i], "id") = notificationId
        THEN With(all[Len(all) + 1 - i], "read", TRUE)
        ELSE all[Len(all) + 1 - i]]

\* markAsRead: allNotifications.map(...)
markAsReadMap(all, notificationId) ==
    [i \in 1..Len(all) |->
        IF Get(all[i], "id") = notificationId
        THEN With(all[i], "read", TRUE) ELSE all[i]]

\* A markAllAsRead that forgets to compare the userId.
markAllAsReadMapEveryone(all, userId) ==
    [i \in 1..Len(all) |-> With(all[i], "read", TRUE)]

\* A markAllAsRead that writes the comparison itself into the flag.
markAllAsReadMapAssign(all, userId) ==
    [i \in 1..Len(all) |->
        With(all[i], "read", Get(all[i], "userId") = userId)]

\* A markAllAsRead that also stamps the records it marks.
markAllAsReadMapStamping(all, userId) ==
    [i \in 1..Len(all) |->
        IF Get(all[i], "userId") = userId
        THEN With(With(all[i], "read", TRUE), "createdAt", toISOString(0))
        ELSE all[i]]

\* markAllAsRead: allNotifications.map(...)
markAllAsReadMap(all, userId) ==
    [i \in 1..Len(all) |->
        IF Get(all[i], "userId") = userId
        THEN With(all[i], "read", TRUE) ELSE all[i]]

\* A deleteNotification whose filter keeps the records with the id.
deleteFilterInverted(all, notificationId) ==
    LET same(n) == Get(n, "id") = notificationId
    IN  SelectSeq(all, same)

\* deleteNotification: allNotifications.filter(...)
deleteFilter(all, notificationId) ==
    LET others(n) == Get(n, "id") # notificationId
    IN  SelectSeq(all, others)

(* --------------------------- the event helpers ----------------------- *)

\* An appointmentDetails argument that is undefined.
NoDetails == [absent |-> TRUE]

\* Reading a property of it throws a TypeError.
PropertyAccessThrows(appointmentDetails) == appointmentDetails = NoDetails

\* What createNotification is handed (a template literal is the sequence of
\* its pieces, each interpolated value rendered).
confirmedFields(patientId, d) ==
    [ userId |-> patientId,
      type |-> "appointment_confirmed",
      title |-> "Consulta Confirmada",
      message |-> << "Sua consulta com ", Render(Get(d, "doctorName")),
                     " foi confirmada para ", Render(Get(d, "date")),
                     " as ", Render(Get(d, "time")), "." >>,
      appointmentId |-> Get(d, "id") ]

cancelledFields(patientId, d, reason) ==
    [ userId |-> patientId,
      type |-> "appointment_cancelled",
      title |-> "Consulta Cancelada",
      message |-> << "Sua consulta com ", Render(Get(d, "doctorName")),
                     " foi cancelada." >>
                  \o (IF reason # Undefined /\ reason # ""
                      THEN <<" Motivo: ", reason>> ELSE <<>>),
      appointmentId |-> Get(d, "id") ]

newAppointmentFields(doctorId, d) ==
    [ userId |-> doctorId,
      type |-> "general",
      title |-> "Nova Consulta Agendada",
      message |-> << Render(Get(d, "patientName")),
                     " agendou uma consulta para ", Render(Get(d, "date")),
                     " as ", Render(Get(d, "time")), "." >>,
      appointmentId |-> Get(d, "id") ]

\* A reminder that is stored with the type of the helper it was copied from.
reminderFieldsGeneral(userId, d) ==
    [ userId |-> userId,
      type |-> "general",
      title |-> "Lembrete de Consulta",
      message |-> << "Voce tem uma consulta agendada para amanha as ",
                     Render(Get(d, "time")), " com ",
                     Render(IF Get(d, "doctorName") \notin {Undefined, ""}
                            THEN Get(d, "doctorName")
                            ELSE Get(d, "patientName")), "." >>,
      appointmentId |-> Get(d, "id") ]

reminderFields(userId, d) ==
    [ userId |-> userId,
      type |-> "appointment_reminder",
      title |-> "Lembrete de Consulta",
      message |-> << "Voce tem uma consulta agendada para amanha as ",
                     Render(Get(d, "time")), " com ",
                     Render(IF Get(d, "doctorName") \notin {Undefined, ""}
                            THEN Get(d, "doctorName")
                            ELSE Get(d, "patientName")), "." >>,
      appointmentId |-> Get(d, "id") ]

(* ------------------------------ inputs --------------------------------- *)

\* The appointment a helper is told about (a doctor's view has no
\* doctorName), or nothing.
Appointment ==
    [id |-> "a1", patientName |-> "Joao", date |-> "10/05", time |-> "14:00"]
DetailsArgs == {NoDetails, Appointment}
Reasons == {Undefined, "imprevisto"}

\* What a caller passes to createNotification directly.
DirectFields(u) ==
    [userId |-> u, type |-> "general", title |-> "Aviso", message |-> <<"ola">>]

(* ------------------------------- state --------------------------------- *)

VARIABLES
    slot,        \* AsyncStorage's content under STORAGE_KEY
    clock,       \* the latest reading of the clock (Date.now, new Date)
    calls,       \* history: invocations so far
    pc,          \* per caller: where its invocation stands
    op,          \* per caller: the operation invoked
    arg,         \* per caller: its argument
    stored,      \* per caller: `stored', what getItem answered
    pending,     \* per caller: the array handed to setItem
    result,      \* per caller: how the returned promise settled
    overlapped   \* history: per caller, the records (by call ordinal) that
                 \* other createNotification calls wrote since its getItem

vars == <<slot, clock, calls, pc, op, arg, stored, pending, result,
          overlapped>>

STORAGE_KEY == "@MedicalApp:notifications"

CreateOps == {"createNotification", "notifyAppointmentConfirmed",
              "notifyAppointmentCancelled", "notifyNewAppointment",
              "notifyAppointmentReminder"}
WriteOps == CreateOps \cup {"markAsRead", "markAllAsRead", "deleteNotification"}
ReadOps == {"getNotifications", "getUnreadCount"}

Unsettled == [outcome |-> "pending", value |-> Undefined]
Resolved(v) == [outcome |-> "resolved", value |-> v]
Rejected == [outcome |-> "rejected", value |-> "TypeError"]

LastTime == StartTime + MaxTicks

\* An id no record has: the clock never read 0.
UnknownId == NumberToString(0)

\* The ids a caller passes: those of the stored records, or an unknown one.
IdArgs ==
    {Get(n, "id") : n \in {allNotifications(slot)[i] :
                              i \in 1..Len(allNotifications(slot))}}
      \cup {UnknownId}

Init ==
    /\ slot \in {NeverWritten, Unparseable}
    /\ clock = StartTime
    /\ calls = 0
    /\ pc = [p \in Procs |-> "idle"]
    /\ op = [p \in Procs |-> "none"]
    /\ arg = [p \in Procs |-> Undefined]
    /\ stored = [p \in Procs |-> NotRead]
    /\ pending = [p \in Procs |-> <<>>]
    /\ result = [p \in Procs |-> Unsettled]
    /\ overlapped = [p \in Procs |-> {}]

(* ------------------------------ the calls ------------------------------ *)

\* An invocation takes the first process that is free (the invocations keep
\* nothing from one call to the next, so which one it takes is immaterial).
FreeSlot(p) == pc[p] = "idle" /\ \A q \in Procs : q < p => pc[q] # "idle"

\* A reading operation changes nothing another invocation sees, and what it
\* returns is a function of the answer of its getItem alone: its overlaps
\* with other invocations add no behaviour, and it runs on its own here.
Reading == \E q \in Procs : op[q] \in ReadOps
Alone(o) == o \in ReadOps => \A q \in Procs : pc[q] = "idle"

\* What getItem answers: the slot's content as it is now, or a rejection.
Answers == {slot, GetItemRejected}

\* What markAsRead, markAllAsRead and deleteNotification hand to setItem.
updated(o, a, all) ==
    IF o = "markAsRead" THEN markAsReadMap(all, a)
    ELSE IF o = "markAllAsRead" THEN markAllAsReadMap(all, a)
    ELSE deleteFilter(all, a)

\* Operation o(a) up to its next suspension, given what its getItem
\* answered.  A reading operation returns its value.  A writing operation
\* whose load throws is caught, logs and returns; otherwise markAsRead,
\* markAllAsRead and deleteNotification transform the list and run to their
\* `await AsyncStorage.setItem', and createNotification waits to resume (it
\* reads the clock when it does).
Loaded(p, o, a, answer) ==
    /\ stored' = [stored EXCEPT ![p] = answer]
    /\ IF o \in ReadOps
       THEN /\ pc' = [pc EXCEPT ![p] = "done"]
            /\ result' = [result EXCEPT ![p] =
                  IF o = "getNotifications"
                  THEN Resolved(getNotifications(answer, a))
                  ELSE Resolved(getUnreadCount(answer, a))]
            /\ UNCHANGED pending
       ELSE IF o \in CreateOps
       THEN /\ pc' = [pc EXCEPT ![p] = "resume"]
            /\ UNCHANGED <<result, pending>>
       ELSE IF LoadThrows(answer)
       THEN /\ pc' = [pc EXCEPT ![p] = "done"]
            /\ result' = [result EXCEPT ![p] = Resolved(Undefined)]
            /\ UNCHANGED pending
       ELSE /\ pc' = [pc EXCEPT ![p] = "setItem"]
            /\ pending' = [pending EXCEPT ![p] =
                  updated(o, a, allNotifications(answer))]
            /\ UNCHANGED result

\* An operation is invoked and the storage answers its getItem.  (Nothing
\* the invocation does can be seen before that answer, so the model takes
\* the two together.)
Invoke(p, o, a) ==
    /\ FreeSlot(p)
    /\ ~ Reading
    /\ Alone(o)
    /\ calls < MaxCalls
    /\ calls' = calls + 1
    /\ op' = [op EXCEPT ![p] = o]
    /\ arg' = [arg EXCEPT ![p] = a]
    /\ \E answer \in Answers : Loaded(p, o, a, answer)
    /\ UNCHANGED <<slot, clock, overlapped>>

\* The fields a create is handed, tagged with the ordinal of the call (a
\* history tag: no operation reads it, the spread copies it with the rest).
Tagged(fields) == With(fields, "serial", calls + 1)

CallGetNotifications(p, userId) ==
    Invoke(p, "getNotifications", userId)

CallGetUnreadCount(p, userId) ==
    Invoke(p, "getUnreadCount", userId)

CallMarkAsRead(p, notificationId) ==
    Invoke(p, "markAsRead", notificationId)

CallMarkAllAsRead(p, userId) ==
    Invoke(p, "markAllAsRead", userId)

CallDeleteNotification(p, notificationId) ==
    Invoke(p, "deleteNotification", notificationId)

CallCreateNotification(p, userId) ==
    Invoke(p, "createNotification", Tagged(DirectFields(userId)))

\* A helper builds the argument of createNotification first: with no
\* appointmentDetails that throws, outside any try, and the helper's promise
\* rejects.  Otherwise the helper is the createNotification it awaits.
Helper(p, o, appointmentDetails, fields) ==
    IF PropertyAccessThrows(appointmentDetails)
    THEN /\ FreeSlot(p)
         /\ ~ Reading
         /\ calls < MaxCalls
         /\ calls' = calls + 1
         /\ pc' = [pc EXCEPT ![p] = "done"]
         /\ op' = [op EXCEPT ![p] = o]
         /\ arg' = [arg EXCEPT ![p] = appointmentDetails]
         /\ result' = [result EXCEPT ![p] = Rejected]
         /\ UNCHANGED <<slot, clock, stored, pending, overlapped>>
    ELSE Invoke(p, o, Tagged(fields))

CallNotifyAppointmentConfirmed(p, patientId, d) ==
    Helper(p, "notifyAppointmentConfirmed", d, confirmedFields(patientId, d))

CallNotifyAppointmentCancelled(p, patientId, d, reason) ==
    Helper(p, "notifyAppointmentCancelled", d,
           cancelledFields(patientId, d, reason))

CallNotifyNewAppointment(p, doctorId, d) ==
    Helper(p, "notifyNewAppointment", d, newAppointmentFields(doctorId, d))

CallNotifyAppointmentReminder(p, userId, d) ==
    Helper(p, "notifyAppointmentReminder", d, reminderFields(userId, d))

(* ------------------------------ the steps ------------------------------ *)

\* A createNotification that takes a failed load for an empty list and
\* writes the new record alone.
ResumeCreateNoCatch(p) ==
    /\ pc[p] = "resume"
    /\ \E now \in clock..LastTime :
          /\ clock' = now
          /\ pending' = [pending EXCEPT ![p] =
                Append(allNotifications(stored[p]),
                       newNotification(arg[p], now, now))]
    /\ pc' = [pc EXCEPT ![p] = "setItem"]
    /\ UNCHANGED <<slot, calls, op, arg, stored, overlapped, result>>

\* createNotification resumes with the answer.  When the load throws, the
\* catch logs and the operation returns.  Otherwise it reads the clock
\* (Date.now() for the id and new Date() for createdAt, one line apart: the
\* model takes both in the same millisecond, which is not before the latest
\* reading), appends the new record and runs to its
\* `await AsyncStorage.setItem'.
ResumeCreate(p) ==
    /\ pc[p] = "resume"
    /\ IF LoadThrows(stored[p])
       THEN /\ pc' = [pc EXCEPT ![p] = "done"]
            /\ result' = [result EXCEPT ![p] = Resolved(Undefined)]
            /\ UNCHANGED <<clock, pending>>
       ELSE /\ \E now \in clock..LastTime :
                 /\ clock' = now
                 /\ pending' = [pending EXCEPT ![p] =
                       Append(allNotifications(stored[p]),
                              newNotification(arg[p], now, now))]
            /\ pc' = [pc EXCEPT ![p] = "setItem"]
            /\ UNCHANGED result
    /\ UNCHANGED <<slot, calls, op, arg, stored, overlapped>>

\* A storage whose write of a create adds the new record to what the slot
\* holds at that moment.
StorageSetAppending(p) ==
    /\ pc[p] = "setItem"
    /\ \E ok \in BOOLEAN :
          /\ slot' = IF ~ ok THEN slot
                     ELSE IF op[p] \in CreateOps
                     THEN JSONText(JSONstringify(
                            Append(allNotifications(slot),
                                   pending[p][Len(pending[p])])))
                     ELSE JSONText(JSONstringify(pending[p]))
          /\ overlapped' =
                [q \in Procs |->
                    IF ok /\ q # p /\ op[p] \in CreateOps
                          /\ pc[q] \in {"resume", "setItem"}
                    THEN overlapped[q] \cup {arg[p].serial}
                    ELSE overlapped[q]]
    /\ pc' = [pc EXCEPT ![p] = "done"]
    /\ result' = [result EXCEPT ![p] = Resolved(Undefined)]
    /\ UNCHANGED <<clock, calls, op, arg, stored, pending>>

\* The storage performs setItem, replacing the whole slot, or rejects it
\* (the catch logs).  Either way the operation returns.
StorageSet(p) ==
    /\ pc[p] = "setItem"
    /\ \E ok \in BOOLEAN :
          /\ slot' = IF ok THEN JSONText(JSONstringify(pending[p])) ELSE slot
          /\ overlapped' =
                [q \in Procs |->
                    IF ok /\ q # p /\ op[p] \in CreateOps
                          /\ pc[q] \in {"resume", "setItem"}
                    THEN overlapped[q] \cup {arg[p].serial}
                    ELSE overlapped[q]]
    /\ pc' = [pc EXCEPT ![p] = "done"]
    /\ result' = [result EXCEPT ![p] = Resolved(Undefined)]
    /\ UNCHANGED <<clock, calls, op, arg, stored, pending>>

\* The caller takes the settled promise.
Return(p) ==
    /\ pc[p] = "done"
    /\ pc' = [pc EXCEPT ![p] = "idle"]
    /\ op' = [op EXCEPT ![p] = "none"]
    /\ arg' = [arg EXCEPT ![p] = Undefined]
    /\ stored' = [stored EXCEPT ![p] = NotRead]
    /\ pending' = [pending EXCEPT ![p] = <<>>]
    /\ result' = [result EXCEPT ![p] = Unsettled]
    /\ overlapped' = [overlapped EXCEPT ![p] = {}]
    /\ UNCHANGED <<slot, clock, calls>>

\* A step of an invocation that is under way.
Step(p) ==
    \/ ResumeCreate(p)
    \/ StorageSet(p)
    \/ Return(p)

\* The six operations of the service, called by two concurrent callers.
Next ==
    \E p \in Procs :
          \/ \E u \in Users : CallGetNotifications(p, u)
          \/ \E u \in Users : CallGetUnreadCount(p, u)
          \/ \E u \in Users : CallCreateNotification(p, u)
          \/ \E id \in IdArgs : CallMarkAsRead(p, id)
          \/ \E u \in Users : CallMarkAllAsRead(p, u)
          \/ \E id \in IdArgs : CallDeleteNotification(p, id)
          \/ Step(p)

Spec == Init /\ [][Next]_vars

\* The four event helpers (and the listing that shows what they stored),
\* called one at a time: past its first line a helper is a createNotification,
\* whose overlaps Next covers.
NextNotify ==
    \E p \in {1} :
          \/ \E u \in Patients, d \in DetailsArgs :
                CallNotifyAppointmentConfirmed(p, u, d)
          \/ \E u \in Patients, d \in DetailsArgs, r \in Reasons :
                CallNotifyAppointmentCancelled(p, u, d, r)
          \/ \E u \in Doctors, d \in DetailsArgs :
                CallNotifyNewAppointment(p, u, d)
          \/ \E u \in Users, d \in DetailsArgs :
                CallNotifyAppointmentReminder(p, u, d)
          \/ \E u \in Users : CallGetNotifications(p, u)
          \/ Step(p)

SpecNotify == Init /\ [][NextNotify]_vars

(* ------------------------- what the claims use ----------------------- *)

\* The stored collection: what a getItem answered now would parse to.
Collection(content) == allNotifications(content)

\* The elements of a sequence.
Elements(seq) == {seq[i] : i \in DOMAIN seq}

\* How many times r occurs in seq.
Occurrences(seq, r) == Cardinality({i \in DOMAIN seq : seq[i] = r})

\* a is not later than b, read off the fields of the two ISO strings.
NotLater(a, b) ==
    LET fa == <<a.day, a.hour, a.minute, a.second, a.milli>>
        fb == <<b.day, b.hour, b.minute, b.second, b.milli>>
    IN  \/ fa = fb
        \/ \E k \in 1..5 : /\ fa[k] < fb[k]
                           /\ \A j \in 1..(k - 1) : fa[j] = fb[j]

\* The call tags of the records of a collection.
Tags(list) == {Get(list[i], "serial") : i \in DOMAIN list}

\* p's setItem is performed in this step.
Writes(p) ==
    /\ pc[p] = "setItem"
    /\ pc'[p] = "done"
    /\ slot' = JSONText(JSONstringify(pending[p]))

\* p's setItem changes the slot in this step.
Lands(p) ==
    /\ pc[p] = "setItem"
    /\ pc'[p] = "done"
    /\ slot' # slot

\* No write landed between p's getItem and now: what p loaded is what the
\* slot holds (p ran as if no other operation were interleaved).
Undisturbed(p) ==
    /\ ~ LoadThrows(stored[p])
    /\ slot.kind # "corrupt"
    /\ Collection(stored[p]) = Collection(slot)

\* p has returned from operation o after a load that did not throw.
Returned(p, o) ==
    pc[p] = "done" /\ op[p] = o /\ ~ LoadThrows(stored[p])

(* --------------------------------- C1 ---------------------------------- *)

\* C1: whenever getNotifications(U) returns after a load that succeeded, the
\* list it returns holds each stored record of U exactly as often as the
\* stored collection does, holds no record of another user, and its
\* createdAt never increases from one element to the next.
C1_ListIsFilteredAndSorted ==
    \A p \in Procs :
        Returned(p, "getNotifications") =>
            LET all == Collection(stored[p])
                list == result[p].value
            IN  /\ result[p].outcome = "resolved"
                /\ \A r \in Elements(list) : r.userId = arg[p]
                /\ \A r \in Elements(all) \cup Elements(list) :
                      Occurrences(list, r) =
                        IF r.userId = arg[p] THEN Occurrences(all, r) ELSE 0
                /\ \A i, j \in DOMAIN list :
                      i < j => NotLater(list[j].createdAt, list[i].createdAt)

\* A listing that had to put a later record before an earlier one.
C1_Witness ==
    \E p \in Procs :
        /\ Returned(p, "getNotifications")
        /\ Len(result[p].value) >= 2
        /\ result[p].value[1].createdAt # result[p].value[2].createdAt
        /\ result[p].value[1] = Collection(stored[p])[2]

(* --------------------------------- C2 ---------------------------------- *)

\* C2: when a createNotification handed the fields n runs undisturbed and its
\* load and its write succeed, a getNotifications(n.userId) answered right
\* after the write holds exactly one record more than one answered right
\* before it; every record listed before is still listed; the added record
\* has read = false and its createdAt is the time the call read from the
\* clock (no earlier than any earlier reading).
C2_CreateAddsOneUnreadRecord ==
    [][\A p \in Procs :
        /\ (pc[p] = "resume" /\ pc'[p] = "setItem") =>
              LET added == pending'[p][Len(pending'[p])]
              IN  /\ added.read = FALSE
                  /\ added.createdAt = toISOString(clock')
                  /\ clock' >= clock
        /\ (Writes(p) /\ op[p] \in CreateOps /\ Undisturbed(p)) =>
              LET u == arg[p].userId
                  before == getNotifications(slot, u)
                  after == getNotifications(slot', u)
                  added == {i \in DOMAIN after :
                               after[i].serial = arg[p].serial}
              IN  /\ Len(after) = Len(before) + 1
                  /\ \A r \in Elements(before) :
                        Occurrences(after, r) >= Occurrences(before, r)
                  /\ Cardinality(added) = 1
                  /\ \A i \in added :
                        /\ after[i].read = FALSE
                        /\ after[i] = pending[p][Len(pending[p])]
                        /\ after[i] \notin Elements(before)
    ]_vars

\* A create that has added its record to a list that already held one of the
\* same user.
C2_Witness ==
    \E p \in Procs :
        /\ pc[p] = "done"
        /\ op[p] = "createNotification"
        /\ ~ LoadThrows(stored[p])
        /\ Collection(slot) = pending[p]
        /\ Len(pending[p]) >= 2
        /\ pending[p][1].userId = arg[p].userId
        /\ Len(getNotifications(slot, arg[p].userId))
             = Len(getNotifications(stored[p], arg[p].userId)) + 1

(* --------------------------------- C3 ---------------------------------- *)

\* C3: when the stored collection holds a record with the given id, a
\* deleteNotification(id) that runs undisturbed and whose load and write
\* succeed removes exactly one record, the one with that id, and leaves the
\* others as they were and in their order.
C3_DeleteRemovesExactlyOne ==
    [][\A p \in Procs :
        (/\ Writes(p)
         /\ op[p] = "deleteNotification"
         /\ Undisturbed(p)
         /\ \E n \in Elements(Collection(slot)) : n.id = arg[p]) =>
            LET before == Collection(slot)
                after == Collection(slot')
            IN  \E k \in DOMAIN before :
                    /\ before[k].id = arg[p]
                    /\ Len(after) = Len(before) - 1
                    /\ \A i \in DOMAIN after :
                          after[i] = IF i < k THEN before[i] ELSE before[i + 1]
    ]_vars

(* --------------------------------- C4 ---------------------------------- *)

\* C4: after a markAsRead(id) that ran undisturbed and whose load and write
\* succeeded, a getNotifications of any user shows the same records as one
\* answered right before the write, with read = true where the id is the
\* given one and with the read it had before everywhere else.
C4_MarkAsReadMarksThatIdOnly ==
    [][\A p \in Procs :
        (Writes(p) /\ op[p] = "markAsRead" /\ Undisturbed(p)) =>
            \A u \in Users :
                LET before == getNotifications(slot, u)
                    after == getNotifications(slot', u)
                IN  /\ Len(after) = Len(before)
                    /\ \A i \in DOMAIN after :
                          /\ after[i].serial = before[i].serial
                          /\ after[i].id = before[i].id
                          /\ after[i].read =
                               IF after[i].id = arg[p] THEN TRUE
                               ELSE before[i].read
    ]_vars

\* A markAsRead that has marked an unread record and left another unread.
C4_Witness ==
    \E p \in Procs :
        /\ Returned(p, "markAsRead")
        /\ Collection(slot) = pending[p]
        /\ \E i, j \in DOMAIN pending[p] :
              /\ pending[p][i].id = arg[p]
              /\ Collection(stored[p])[i].read = FALSE
              /\ pending[p][i].read = TRUE
              /\ pending[p][j].id # arg[p]
              /\ pending[p][j].read = FALSE

(* --------------------------------- C5 ---------------------------------- *)

\* C5: a markAllAsRead(U) that runs undisturbed and whose load and write
\* succeed leaves a collection of the same records in the same order, where
\* every record of U has read = true and is otherwise as it was, and every
\* record of another user is as it was in every field; right after it
\* getUnreadCount(U) is 0 and getUnreadCount(V) is what it was, for V # U.
C5_MarkAllAsReadMarksThatUserOnly ==
    [][\A p \in Procs :
        (Writes(p) /\ op[p] = "markAllAsRead" /\ Undisturbed(p)) =>
            LET before == Collection(slot)
                after == Collection(slot')
            IN  /\ Len(after) = Len(before)
                /\ \A i \in DOMAIN after :
                      IF before[i].userId = arg[p]
                      THEN /\ after[i].read = TRUE
                           /\ DOMAIN after[i] = DOMAIN before[i]
                           /\ \A k \in DOMAIN after[i] \ {"read"} :
                                 after[i][k] = before[i][k]
                      ELSE after[i] = before[i]
                /\ getUnreadCount(slot', arg[p]) = 0
                /\ \A v \in Users \ {arg[p]} :
                      getUnreadCount(slot', v) = getUnreadCount(slot, v)
    ]_vars

\* A markAllAsRead that has marked an unread record of its user and left an
\* unread record of the other user.
C5_Witness ==
    \E p \in Procs :
        /\ Returned(p, "markAllAsRead")
        /\ Collection(slot) = pending[p]
        /\ \E i, j \in DOMAIN pending[p] :
              /\ pending[p][i].userId = arg[p]
              /\ Collection(stored[p])[i].read = FALSE
              /\ pending[p][i].read = TRUE
              /\ pending[p][j].userId # arg[p]
              /\ pending[p][j].read = FALSE

(* --------------------------------- C6 ---------------------------------- *)

\* C6: whenever getUnreadCount(U) returns after a load that succeeded, it
\* returns the number of stored records of U with read = false, a number from
\* 0 to the length of the list getNotifications(U) gives for the same load.
C6_UnreadCountCounts ==
    \A p \in Procs :
        Returned(p, "getUnreadCount") =>
            LET all == Collection(stored[p])
            IN  /\ result[p].outcome = "resolved"
                /\ result[p].value =
                     Cardinality({i \in DOMAIN all :
                         all[i].userId = arg[p] /\ all[i].read = FALSE})
                /\ result[p].value \in
                     0..Len(getNotifications(stored[p], arg[p]))

\* A count of 1 over a collection that also holds a record that does not
\* count.
C6_Witness ==
    \E p \in Procs :
        /\ Returned(p, "getUnreadCount")
        /\ result[p].value = 1
        /\ Len(Collection(stored[p])) = 2

(* --------------------------------- C7 ---------------------------------- *)

\* C7: in every reachable state, no two records of the stored collection
\* have the same id.
C7_IdsAreUnique ==
    LET all == Collection(slot)
    IN  \A i, j \in DOMAIN all : all[i].id = all[j].id => i = j

(* --------------------------------- C8 ---------------------------------- *)

\* C8: when the write of a createNotification lands, the stored collection
\* holds the record that call appended and none of the records that other
\* createNotification calls wrote between this call's getItem and now: the
\* creates that completed in between are lost.
C8_OverlappedCreateIsLost ==
    [][\A p \in Procs :
        (Lands(p) /\ op[p] \in CreateOps) =>
            /\ arg[p].serial \in Tags(Collection(slot'))
            /\ \A c \in overlapped[p] : c \notin Tags(Collection(slot'))
    ]_vars

\* Two creates that overlapped, both returned: the record of the first to
\* write was in the slot, and the write of the second has removed it.
C8_Witness ==
    \E p, q \in Procs :
        /\ p # q
        /\ pc[p] = "done" /\ op[p] \in CreateOps
        /\ pc[q] = "done" /\ op[q] \in CreateOps
        /\ overlapped[p] = {arg[q].serial}
        /\ arg[q].serial \in Tags(pending[q])
        /\ Collection(slot) = pending[p]
        /\ arg[q].serial \notin Tags(Collection(slot))

(* --------------------------------- C9 ---------------------------------- *)

\* C9 as claimed: in every step, a record stored with read = true that is
\* still stored after the step still has read = true.
C9_ReadNeverReset ==
    [][LET before == Collection(slot)
           after == Collection(slot')
       IN  \A i \in DOMAIN before : \A j \in DOMAIN after :
               (before[i].serial = after[j].serial /\ before[i].read)
                 => after[j].read
    ]_vars

\* C9 as amended: a write of an operation that ran undisturbed (no other
\* write landed between its getItem and its setItem) leaves read = true on
\* every record it keeps that was stored with read = true.
C9_ReadNeverResetUndisturbed ==
    [][\A p \in Procs :
        (Writes(p) /\ Undisturbed(p)) =>
            LET before == Collection(slot)
                after == Collection(slot')
            IN  \A i \in DOMAIN before : \A j \in DOMAIN after :
                    (before[i].serial = after[j].serial /\ before[i].read)
                      => after[j].read
    ]_vars

\* An undisturbed write that has kept a record that was already read.
C9_Witness ==
    \E p \in Procs :
        /\ pc[p] = "done"
        /\ op[p] \in WriteOps
        /\ ~ LoadThrows(stored[p])
        /\ Collection(slot) = pending[p]
        /\ \E i \in DOMAIN Collection(stored[p]) : \E j \in DOMAIN pending[p] :
              /\ Collection(stored[p])[i].serial = pending[p][j].serial
              /\ Collection(stored[p])[i].read
              /\ pending[p][j].read

(* --------------------------------- C10 --------------------------------- *)

\* C10: every operation that has returned has resolved its promise: none
\* has rejected it.
C10_NoOperationRejects ==
    \A p \in Procs : pc[p] = "done" => result[p].outcome = "resolved"

(* --------------------------------- C11 --------------------------------- *)

\* The load of a call failed: its getItem rejected or its text did not parse.
LoadFailed(p) == pc[p] = "done" /\ LoadThrows(stored[p])

\* C11: a getNotifications whose read or parse failed has returned the empty
\* sequence, and a getUnreadCount whose read or parse failed has returned 0.
C11_FailedReadGivesEmpty ==
    \A p \in Procs :
        /\ (LoadFailed(p) /\ op[p] = "getNotifications")
              => result[p] = Resolved(<<>>)
        /\ (LoadFailed(p) /\ op[p] = "getUnreadCount")
              => result[p] = Resolved(0)

\* A getUnreadCount has returned 0 after a getItem that rejected, although
\* the slot holds an unread record of that user.
C11_Witness ==
    \E p \in Procs :
        /\ LoadFailed(p)
        /\ op[p] = "getUnreadCount"
        /\ result[p] = Resolved(0)
        /\ \E i \in DOMAIN Collection(slot) :
              /\ Collection(slot)[i].userId = arg[p]
              /\ ~ Collection(slot)[i].read

(* --------------------------------- C12 --------------------------------- *)

\* Caller p takes a step of the operation it has under way.
Moves(p) == pc'[p] # pc[p] /\ pc'[p] # "idle"

\* C12: a writing operation whose read or parse failed is a silent no-op:
\* none of its steps changes the slot, it never reaches setItem, it hands
\* nothing to write, and its promise resolves.
C12_FailedLoadWritesNothing ==
    [][\A p \in Procs :
        (Moves(p) /\ op'[p] \in WriteOps /\ LoadThrows(stored'[p])) =>
            /\ slot' = slot
            /\ pc'[p] \in {"resume", "done"}
            /\ pending'[p] = <<>>
            /\ pc'[p] = "done" => result'[p] = Resolved(Undefined)
    ]_vars

\* A createNotification has returned after a getItem that rejected, and the
\* slot holds the records it held, the new one not among them.
C12_Witness ==
    \E p \in Procs :
        /\ LoadFailed(p)
        /\ op[p] = "createNotification"
        /\ result[p] = Resolved(Undefined)
        /\ Collection(slot) # <<>>
        /\ arg[p].serial \notin {Collection(slot)[i].serial :
                                    i \in DOMAIN Collection(slot)}

(* --------------------------------- C13 --------------------------------- *)

\* Where the record of call s stands in a list (0 when it is not there).
PlaceOf(list, s) ==
    IF s \in Tags(list)
    THEN CHOOSE i \in DOMAIN list : list[i].serial = s
    ELSE 0

\* C13: of two records of U that two createNotification calls stored one
\* after the other (the second call loaded the record of the first, so it
\* stands behind it in the slot), getNotifications(U) returns the record of
\* the second call before the record of the first.
C13_LaterCreateListedFirst ==
    \A p \in Procs :
        Returned(p, "getNotifications") =>
            LET all == Collection(stored[p])
                list == result[p].value
            IN  \A i \in DOMAIN all : \A j \in DOMAIN all :
                    (i < j /\ all[i].userId = arg[p] /\ all[j].userId = arg[p])
                      => PlaceOf(list, all[j].serial)
                           < PlaceOf(list, all[i].serial)

(* --------------------------------- C14 --------------------------------- *)

\* The call tags of a list, in the order of the list.
TagSeq(list) == [i \in DOMAIN list |-> list[i].serial]

\* The places of list are strictly increasing in `from': list keeps the
\* relative order of from.
KeepsOrderOf(list, from) ==
    /\ Tags(list) \subseteq Tags(from)
    /\ \A i \in DOMAIN list : \A j \in DOMAIN list :
          i < j => PlaceOf(from, list[i].serial) < PlaceOf(from, list[j].serial)

\* C14: the slot holds the records in insertion order.  A write of a
\* createNotification stores the records the call read, unchanged and in
\* place, and the new record after them; a write of markAsRead,
\* markAllAsRead or deleteNotification stores records the call read, in the
\* order it read them; the stored records stand in the order of the calls
\* that created them; and a getNotifications or getUnreadCount leaves the
\* slot as it is.
C14_StoredInInsertionOrder ==
    [][\A p \in Procs :
        /\ (Writes(p) /\ op[p] \in CreateOps) =>
              LET read == Collection(stored[p])
                  after == Collection(slot')
              IN  /\ Len(after) = Len(read) + 1
                  /\ SubSeq(after, 1, Len(read)) = read
                  /\ after[Len(after)].serial = arg[p].serial
        /\ (Writes(p) /\ op[p] \in WriteOps \ CreateOps) =>
              KeepsOrderOf(Collection(slot'), Collection(stored[p]))
        /\ Writes(p) =>
              \A i \in DOMAIN Collection(slot') :
                 \A j \in DOMAIN Collection(slot') :
                    i < j => Collection(slot')[i].serial
                               < Collection(slot')[j].serial
        /\ (Moves(p) /\ op'[p] \in ReadOps) => slot' = slot
    ]_vars

\* A markAsRead has written two records, in the order it read them.
C14_Witness ==
    \E p \in Procs :
        /\ Returned(p, "markAsRead")
        /\ Collection(slot) = pending[p]
        /\ Len(pending[p]) = 2
        /\ TagSeq(pending[p]) = TagSeq(Collection(stored[p]))
        /\ pending[p] # Collection(stored[p])

(* --------------------------------- C15 --------------------------------- *)

\* Records a and b differ in nothing but, possibly, read.
SameButRead(a, b) ==
    /\ DOMAIN a = DOMAIN b
    /\ \A k \in DOMAIN a \ {"read"} : a[k] = b[k]

\* C15: a record that stays in the slot over a step keeps its createdAt (and
\* every other field but read), whatever the step; and what markAsRead and
\* markAllAsRead store is, record by record, what they loaded, with no field
\* but read changed, none added, none removed.
C15_OnlyReadChanges ==
    [][LET before == Collection(slot)
           after == Collection(slot')
       IN  /\ slot' # slot =>
                 \A i \in DOMAIN before : \A j \in DOMAIN after :
                    before[i].serial = after[j].serial
                      => /\ after[j].createdAt = before[i].createdAt
                         /\ SameButRead(before[i], after[j])
           /\ \A p \in Procs :
                 (Writes(p) /\ op[p] \in {"markAsRead", "markAllAsRead"}) =>
                    LET read == Collection(stored[p])
                    IN  /\ Len(after) = Len(read)
                        /\ \A i \in DOMAIN read :
                              SameButRead(read[i], after[i])
    ]_vars

\* A markAllAsRead has written the record it loaded, marked and otherwise
\* as it was.
C15_Witness ==
    \E p \in Procs :
        /\ Returned(p, "markAllAsRead")
        /\ Collection(slot) = pending[p]
        /\ \E i \in DOMAIN pending[p] :
              /\ pending[p][i].read
              /\ ~ Collection(stored[p])[i].read
              /\ pending[p][i].createdAt = Collection(stored[p])[i].createdAt

(* --------------------------------- C16 --------------------------------- *)

\* The id p was called with is the id of no record p loaded.
IdUnknown(p) ==
    \A i \in DOMAIN Collection(stored[p]) :
        Collection(stored[p])[i].id # arg[p]

\* C16: a markAsRead or deleteNotification called with an id that no stored
\* record has hands to setItem the collection it loaded, and its write,
\* performed or rejected, leaves the collection with the same records, the
\* same values and the same order.
C16_UnknownIdIsNoOp ==
    [][\A p \in Procs :
        ( /\ pc[p] = "setItem"
          /\ pc'[p] = "done"
          /\ op[p] \in {"markAsRead", "deleteNotification"}
          /\ IdUnknown(p) ) =>
            /\ pending[p] = Collection(stored[p])
            /\ Undisturbed(p) => Collection(slot') = Collection(slot)
    ]_vars

\* A deleteNotification of an unknown id has written, and the slot holds the
\* record it held.
C16_Witness ==
    \E p \in Procs :
        /\ Returned(p, "deleteNotification")
        /\ arg[p] = UnknownId
        /\ IdUnknown(p)
        /\ Collection(stored[p]) # <<>>
        /\ slot = JSONText(JSONstringify(pending[p]))
        /\ Collection(slot) = Collection(stored[p])

(* --------------------------------- C17 --------------------------------- *)

\* C17: a slot that was never written is an empty collection.  A
\* getNotifications that was answered null returns the empty sequence, a
\* getUnreadCount returns 0, and a createNotification goes on to hand
\* setItem the new record alone, unread, so that its write leaves the
\* collection with exactly that record.
C17_NeverWrittenIsEmpty ==
    [][\A p \in Procs :
        /\ (Moves(p) /\ stored'[p] = NeverWritten /\ op'[p] = "getNotifications")
              => result'[p] = Resolved(<<>>)
        /\ (Moves(p) /\ stored'[p] = NeverWritten /\ op'[p] = "getUnreadCount")
              => result'[p] = Resolved(0)
        /\ (pc[p] = "resume" /\ Moves(p) /\ stored[p] = NeverWritten) =>
              /\ pc'[p] = "setItem"
              /\ Len(pending'[p]) = 1
              /\ pending'[p][1].serial = arg[p].serial
              /\ ~ pending'[p][1].read
        /\ (Writes(p) /\ op[p] \in CreateOps /\ stored[p] = NeverWritten) =>
              /\ Len(Collection(slot')) = 1
              /\ Collection(slot')[1].serial = arg[p].serial
    ]_vars

\* A createNotification that was answered null has written, and the slot
\* holds its record alone.
C17_Witness ==
    \E p \in Procs :
        /\ pc[p] = "done"
        /\ op[p] = "createNotification"
        /\ stored[p] = NeverWritten
        /\ Len(Collection(slot)) = 1
        /\ Collection(slot)[1].serial = arg[p].serial

(* --------------------------------- C18 --------------------------------- *)

HelperOps == CreateOps \ {"createNotification"}

\* The type each helper stores.
TypeOf(o) ==
    IF o = "notifyAppointmentConfirmed" THEN "appointment_confirmed"
    ELSE IF o = "notifyAppointmentCancelled" THEN "appointment_cancelled"
    ELSE IF o = "notifyAppointmentReminder" THEN "appointment_reminder"
    ELSE "general"

\* In this step helper o hands createNotification a record for recipient u
\* about appointment d.
Hands(p, o, u, d) ==
    /\ op'[p] = o
    /\ pc'[p] = "resume"
    /\ arg'[p].userId = u
    /\ arg'[p].type = TypeOf(o)
    /\ arg'[p].appointmentId = d.id

\* C18: a helper that is given an appointment performs exactly one
\* createNotification: it hands it its first argument as userId, the type
\* fixed for the helper and the id of the appointment as appointmentId; the
\* record that createNotification appends carries these, unread; and the
\* helper's only write stores one record more than it loaded, that record
\* last.
C18_HelperCreatesOneTypedRecord ==
    [][\A p \in Procs :
        /\ \A u \in Users : \A d \in DetailsArgs \ {NoDetails} :
              /\ CallNotifyAppointmentConfirmed(p, u, d)
                    => Hands(p, "notifyAppointmentConfirmed", u, d)
              /\ \A r \in Reasons :
                    CallNotifyAppointmentCancelled(p, u, d, r)
                      => Hands(p, "notifyAppointmentCancelled", u, d)
              /\ CallNotifyNewAppointment(p, u, d)
                    => Hands(p, "notifyNewAppointment", u, d)
              /\ CallNotifyAppointmentReminder(p, u, d)
                    => Hands(p, "notifyAppointmentReminder", u, d)
        /\ (pc[p] = "resume" /\ pc'[p] = "setItem" /\ op[p] \in HelperOps) =>
              LET new == pending'[p][Len(pending'[p])]
              IN  /\ Len(pending'[p]) = Len(Collection(stored[p])) + 1
                  /\ new.userId = arg[p].userId
                  /\ new.type = TypeOf(op[p])
                  /\ new.appointmentId = arg[p].appointmentId
                  /\ new.read = FALSE
        /\ (Writes(p) /\ op[p] \in HelperOps) =>
              /\ Collection(slot') = pending[p]
              /\ Len(Collection(slot')) = Len(Collection(stored[p])) + 1
    ]_vars

\* notifyAppointmentReminder has returned and its record is the last one
\* stored: for its recipient, typed appointment_reminder, about the
\* appointment, unread.
C18_Witness ==
    \E p \in Procs :
        /\ pc[p] = "done"
        /\ op[p] = "notifyAppointmentReminder"
        /\ result[p] = Resolved(Undefined)
        /\ Collection(slot) # <<>>
        /\ LET last == Collection(slot)[Len(Collection(slot))]
           IN  /\ last.serial = arg[p].serial
               /\ last.userId = "d1"
               /\ last.type = "appointment_reminder"
               /\ last.appointmentId = Appointment.id
               /\ ~ last.read

(* --------------------------------- C19 --------------------------------- *)

\* The records (by call tag) that the deleteNotification p has returned from
\* removed: p loaded them, did not keep them, and the slot holds what p
\* wrote.
DeletedBy(p) ==
    IF Returned(p, "deleteNotification") /\ Collection(slot) = pending[p]
    THEN Tags(Collection(stored[p])) \ Tags(pending[p])
    ELSE {}

\* C19: a record that a deleteNotification has removed is in the collection
\* after no later step, whatever operation takes it.
C19_DeleteIsPermanent ==
    [][\A p \in Procs : \A s \in DeletedBy(p) :
          s \notin Tags(Collection(slot'))
    ]_vars

\* C19, amended: a write stores only records that its operation loaded, and
\* for a createNotification the new record besides: no write of an
\* operation that read the slot after the delete brings a deleted record
\* back.
C19_WritesStoreWhatTheyLoaded ==
    [][\A q \in Procs :
        Lands(q) =>
            Tags(Collection(slot')) \subseteq
                Tags(Collection(stored[q]))
                  \cup (IF op[q] \in CreateOps THEN {arg[q].serial} ELSE {})
    ]_vars

\* A deleteNotification has removed a record, an operation that read the
\* slot after that has written, and the record is still gone.
C19_Witness ==
    \E p \in Procs : \E q \in Procs \ {p} :
        /\ Returned(p, "deleteNotification")
        /\ Tags(Collection(stored[p])) \ Tags(pending[p]) # {}
        /\ Returned(q, op[q])
        /\ op[q] \in WriteOps \ {"deleteNotification"}
        /\ Collection(stored[q]) = pending[p]
        /\ Collection(slot) = pending[q]
        /\ \A s \in Tags(Collection(stored[p])) \ Tags(pending[p]) :
              s \notin Tags(Collection(slot))

(* --------------------------------- C20 --------------------------------- *)

\* C20: a slot whose text does not parse stays as it is.  While it does, no
\* step changes it, no operation stands at a setItem, and every operation
\* that returns has resolved: getNotifications with the empty sequence,
\* getUnreadCount with 0, the writing operations having written nothing.
C20_UnparseableIsNeverLeft ==
    [][slot = Unparseable =>
        /\ slot' = Unparseable
        /\ \A p \in Procs :
              /\ pc[p] # "setItem"
              /\ pc'[p] # "setItem"
              /\ (Moves(p) /\ pc'[p] = "done") =>
                    result'[p] =
                       IF op'[p] = "getNotifications" THEN Resolved(<<>>)
                       ELSE IF op'[p] = "getUnreadCount" THEN Resolved(0)
                       ELSE Resolved(Undefined)
    ]_vars

\* Over an unparseable slot a createNotification that was answered the bad
\* text has returned, a second operation has returned after it, and the
\* slot is the same.
C20_Witness ==
    /\ slot = Unparseable
    /\ calls >= 2
    /\ \E p \in Procs :
          /\ pc[p] = "done"
          /\ op[p] = "createNotification"
          /\ stored[p] = Unparseable
          /\ result[p] = Resolved(Undefined)
    /\ \E q \in Procs :
          /\ pc[q] = "done"
          /\ op[q] \in WriteOps \ CreateOps
          /\ stored[q] = Unparseable

=============================================================================
